---------------------------- MODULE Spec2Model ----------------------------
(***************************************************************************)
(* Hand-controlled 3D particles: the vision loop (WebcamHandler.predict),  *)
(* the latest-value slot (App.handDataRef) and the render loop             *)
(* (ParticleScene Particles.useFrame).                                     *)
(*                                                                         *)
(* Numbers are fixed point: RES units make 1.0, so 0.4 is 400 and the      *)
(* scale range [0.2, 3.0] is [200, 3000].  Math.hypot is the integer       *)
(* square root (rounded down to one unit).                                 *)
(***************************************************************************)
EXTENDS Integers, Sequences, FiniteSets, TLC

RES == 1000

Abs(a) == IF a < 0 THEN 0 - a ELSE a

Min(a, b) == IF a < b THEN a ELSE b

Max(a, b) == IF a > b THEN a ELSE b

RECURSIVE ISqrtIter(_, _, _)
ISqrtIter(n, lo, hi) ==
    IF lo >= hi THEN lo
    ELSE LET mid == (lo + hi + 1) \div 2
         IN  IF mid * mid <= n THEN ISqrtIter(n, mid, hi)
                               ELSE ISqrtIter(n, lo, mid - 1)

ISqrt(n) == ISqrtIter(n, 0, 4 * RES)

Hypot(a, b) == ISqrt(a * a + b * b)

Hypot3(a, b, c) == ISqrt(a * a + b * b + c * c)

(***************************************************************************)
(* The detector's output: per hand, the landmarks the code reads           *)
(* (wrist 0, thumb tip 4, index tip 8, middle MCP 9, tips 12/16/20), in    *)
(* image space.  A malformed hand lacks some of them.                      *)
(***************************************************************************)
WRIST == 0

THUMB_TIP == 4

INDEX_TIP == 8

MIDDLE_MCP == 9

Tips == <<4, 8, 12, 16, 20>>

UsedLandmarks == {WRIST, MIDDLE_MCP, 4, 8, 12, 16, 20}

Pt(x, y, z) == [x |-> x, y |-> y, z |-> z]

\* A hand whose wrist is at (wx, wy), whose wrist-to-MCP span is hs and
\* whose thumb-index gap is raw.
MkLandmarks(wx, wy, hs, raw) ==
    [i \in UsedLandmarks |->
        CASE i = WRIST      -> Pt(wx, wy, 0)
          [] i = MIDDLE_MCP -> Pt(wx, wy - hs, 0)
          [] i = THUMB_TIP  -> Pt(wx - raw, wy - hs, 0)
          [] i = INDEX_TIP  -> Pt(wx, wy - hs, 0)
          [] OTHER          -> Pt(wx, wy - 2 * hs, 0)]

\* A landmark array that stops before the middle MCP.
MalformedLandmarks == [i \in {WRIST, THUMB_TIP, INDEX_TIP} |-> Pt(500, 500, 0)]


\* JavaScript's NaN and Infinity, as values no finite quantity of the model takes.
NaN == 0 - 1

Infinity == 1000000 * RES

(***************************************************************************)
(* WebcamHandler.predict: per-hand metric extraction.                      *)
(***************************************************************************)
\* rawPinchDist / handScale: x/0 is Infinity and 0/0 is NaN.
RelativePinch(rawPinchDist, handScale) ==
    IF handScale = 0
    THEN IF rawPinchDist = 0 THEN NaN ELSE Infinity
    ELSE (rawPinchDist * RES) \div handScale

\* the rescaling without its clamp
NormalizedPinch_Unclamped(relativePinch) ==
    IF relativePinch = NaN THEN NaN
    ELSE ((relativePinch - 200) * RES) \div 800

\* Math.min(Math.max((relativePinch - 0.2) / 0.8, 0), 1); NaN propagates.
NormalizedPinch(relativePinch) ==
    IF relativePinch = NaN THEN NaN
    ELSE Min(Max(((relativePinch - 200) * RES) \div 800, 0), RES)

HandScaleOf(landmarks) ==
    Hypot(landmarks[WRIST].x - landmarks[MIDDLE_MCP].x,
          landmarks[WRIST].y - landmarks[MIDDLE_MCP].y)

RawPinchDist(landmarks) ==
    Hypot3(landmarks[THUMB_TIP].x - landmarks[INDEX_TIP].x,
           landmarks[THUMB_TIP].y - landmarks[INDEX_TIP].y,
           landmarks[THUMB_TIP].z - landmarks[INDEX_TIP].z)

RECURSIVE TotalTipDist(_, _)
TotalTipDist(landmarks, k) ==
    IF k = 0 THEN 0
    ELSE TotalTipDist(landmarks, k - 1)
         + Hypot(landmarks[Tips[k]].x - landmarks[WRIST].x,
                 landmarks[Tips[k]].y - landmarks[WRIST].y)

\* avgTipDist > handScale * 1.2, with avgTipDist = totalTipDist / 5
IsOpen(landmarks) ==
    TotalTipDist(landmarks, 5) * RES > 5 * HandScaleOf(landmarks) * 1200

\* Reading a landmark the array does not hold throws (undefined.x).
Throws(landmarks) == ~(UsedLandmarks \subseteq DOMAIN landmarks)

HandMetricsOf(landmarks) ==
    [isOpen        |-> IsOpen(landmarks),
     pinchDistance |-> NormalizedPinch(RelativePinch(RawPinchDist(landmarks),
                                                     HandScaleOf(landmarks))),
     palmPosition  |-> Pt((landmarks[WRIST].x - 500) * (0 - 2),
                          (0 - (landmarks[WRIST].y - 500)) * 2,
                          (HandScaleOf(landmarks) - 150) * 20),
     presence      |-> TRUE]

\* the map that hands back the records last hand first
MapMetrics_Reversed(results) ==
    [i \in 1..Len(results) |-> HandMetricsOf(results[Len(results) + 1 - i])]

\* results.landmarks.map(...)
MapMetrics(results) == [i \in 1..Len(results) |-> HandMetricsOf(results[i])]


(***************************************************************************)
(* The detector results the vision loop is fed.                            *)
(***************************************************************************)
\* palm (-0.3, 0), depth 2.0, pinch 0.1
HandL1 == MkLandmarks(650, 500, 250, 70)

\* palm (-0.5, 0), depth 2.0, pinch 0.39
HandL2 == MkLandmarks(750, 500, 250, 128)

\* palm (0.3, 0), depth 2.0, pinch 0.1
HandR1 == MkLandmarks(350, 500, 250, 70)

\* palm (0.3, 0), depth 1.0, pinch 0.3875
HandR2 == MkLandmarks(350, 500, 200, 102)

\* palm (0.3, 0), depth 2.0, pinch exactly 0.4
HandR3 == MkLandmarks(350, 500, 250, 130)

\* palm (0.9, 0), depth 2.0, pinch 0.1
HandFar == MkLandmarks(50, 500, 250, 70)

\* palm (-0.3, 0.8), depth 2.0, pinch 0.1
HandHigh == MkLandmarks(650, 100, 250, 70)

\* wrist and middle MCP coincide, thumb and index tips coincide
HandDegenerate == MkLandmarks(650, 500, 0, 0)

Detected(landmarks) == [threw |-> FALSE, landmarks |-> landmarks]

\* landmarker.detect(video): it throws, or returns the hands it found
DetectorResults ==
    << [threw |-> TRUE, landmarks |-> <<>>],
       Detected(<<>>),
       Detected(<<HandL1>>),
       Detected(<<HandL1, HandR1>>),
       Detected(<<HandR1, HandL1>>),
       Detected(<<HandL2, HandR1>>),
       Detected(<<HandL1, HandR2>>),
       Detected(<<HandR1, HandR2>>),
       Detected(<<HandR2, HandR1>>),
       Detected(<<HandL2, HandFar>>),
       Detected(<<HandL1, HandR3>>),
       Detected(<<HandHigh, HandR1>>),
       Detected(<<HandL1, HandR1, HandL2>>),
       Detected(<<HandDegenerate, HandR1>>),
       Detected(<<HandL1, MalformedLandmarks>>) >>

\* The try block of predict: the list it hands to onHandsUpdate, unless
\* detect or the extraction of some hand throws.
TryPredict(results) ==
    IF results.threw
    THEN [outcome |-> "detect threw", metrics |-> <<>>]
    ELSE IF \E i \in 1..Len(results.landmarks) : Throws(results.landmarks[i])
    THEN [outcome |-> "extraction threw", metrics |-> <<>>]
    ELSE [outcome |-> "published",
          metrics |-> IF Len(results.landmarks) > 0
                      THEN MapMetrics(results.landmarks)
                      ELSE <<>>]

\* TryPredict of every detector result, computed once
Predicted == [k \in DOMAIN DetectorResults |-> TryPredict(DetectorResults[k])]

(***************************************************************************)
(* ParticleScene.tsx, Particles.useFrame: the hand interaction logic.      *)
(***************************************************************************)
PINCH_THRESHOLD == 400

SCALE_SENSITIVITY == 2000

ROTATION_SENSITIVITY == 1500

MIN_SCALE == 200

MAX_SCALE == 3000

\* a < b turned into a <= b
Less_OrEqual(a, b) == a # NaN /\ b # NaN /\ a <= b

\* a < b on JavaScript numbers: false when either side is NaN
Less(a, b) == a # NaN /\ b # NaN /\ a < b

\* the two-hand test with the length check loosened to "at least two"
IsDoublePinch_AtLeastTwo(hands) ==
    /\ Len(hands) >= 2
    /\ Less(hands[1].pinchDistance, PINCH_THRESHOLD)
    /\ Less(hands[2].pinchDistance, PINCH_THRESHOLD)

IsDoublePinch(hands) ==
    /\ Len(hands) = 2
    /\ Less(hands[1].pinchDistance, PINCH_THRESHOLD)
    /\ Less(hands[2].pinchDistance, PINCH_THRESHOLD)

\* a sort that also swaps the two hands when their x are equal
SortedHands_SwapOnTie(hands) ==
    IF hands[1].palmPosition.x - hands[2].palmPosition.x >= 0
    THEN <<hands[2], hands[1]>>
    ELSE hands

\* [...hands].sort((a, b) => a.palmPosition.x - b.palmPosition.x), two elements
SortedHands(hands) ==
    IF hands[1].palmPosition.x - hands[2].palmPosition.x > 0
    THEN <<hands[2], hands[1]>>
    ELSE hands

\* the distance taken in three dimensions
DistOf_WithDepth(hands) ==
    LET leftHand  == SortedHands(hands)[1]
        rightHand == SortedHands(hands)[2]
    IN  Hypot3(leftHand.palmPosition.x - rightHand.palmPosition.x,
               leftHand.palmPosition.y - rightHand.palmPosition.y,
               leftHand.palmPosition.z - rightHand.palmPosition.z)

DistOf(hands) ==
    LET leftHand  == SortedHands(hands)[1]
        rightHand == SortedHands(hands)[2]
    IN  Hypot(leftHand.palmPosition.x - rightHand.palmPosition.x,
              leftHand.palmPosition.y - rightHand.palmPosition.y)

\* the hands taken in detector order, the first as left
DepthDiffOf_Unsorted(hands) == hands[2].palmPosition.z - hands[1].palmPosition.z

DepthDiffOf(hands) ==
    LET leftHand  == SortedHands(hands)[1]
        rightHand == SortedHands(hands)[2]
    IN  rightHand.palmPosition.z - leftHand.palmPosition.z

\* the clamp without its upper bound
ClampScale_NoUpper(scale) == Max(MIN_SCALE, scale)

\* Math.max(0.2, Math.min(scale, 3.0))
ClampScale(scale) == Max(MIN_SCALE, Min(scale, MAX_SCALE))

\* the product of two fixed-point numbers, cut to a whole number of units
Times(a, b) ==
    IF a * b >= 0 THEN (a * b) \div RES
                  ELSE 0 - ((0 - a * b) \div RES)

\* the interacting branch forgets to advance prevDist and prevDepthDiff
GestureLogic_KeepBaseline(t, hands) ==
    IF IsDoublePinch(hands)
    THEN LET dist      == DistOf(hands)
             depthDiff == DepthDiffOf(hands)
         IN  IF ~t.isInteracting
             THEN [t EXCEPT !.prevDist = dist,
                            !.prevDepthDiff = depthDiff,
                            !.isInteracting = TRUE]
             ELSE [t EXCEPT !.scale = ClampScale(t.scale
                                + Times(dist - t.prevDist, SCALE_SENSITIVITY)),
                            !.rotationY = t.rotationY
                                - Times(depthDiff - t.prevDepthDiff, ROTATION_SENSITIVITY)]
    ELSE [t EXCEPT !.isInteracting = FALSE]

\* the interacting branch advances prevDist but not prevDepthDiff
GestureLogic_KeepDepthBaseline(t, hands) ==
    IF IsDoublePinch(hands)
    THEN LET dist      == DistOf(hands)
             depthDiff == DepthDiffOf(hands)
         IN  IF ~t.isInteracting
             THEN [t EXCEPT !.prevDist = dist,
                            !.prevDepthDiff = depthDiff,
                            !.isInteracting = TRUE]
             ELSE [t EXCEPT !.scale = ClampScale(t.scale
                                + Times(dist - t.prevDist, SCALE_SENSITIVITY)),
                            !.rotationY = t.rotationY
                                - Times(depthDiff - t.prevDepthDiff, ROTATION_SENSITIVITY),
                            !.prevDist = dist]
    ELSE [t EXCEPT !.isInteracting = FALSE]

\* prevDist is advanced only on frames whose scale change the clamp let through
GestureLogic_HoldBaselineAtBound(t, hands) ==
    IF IsDoublePinch(hands)
    THEN LET dist      == DistOf(hands)
             depthDiff == DepthDiffOf(hands)
             asked     == t.scale + Times(dist - t.prevDist, SCALE_SENSITIVITY)
         IN  IF ~t.isInteracting
             THEN [t EXCEPT !.prevDist = dist,
                            !.prevDepthDiff = depthDiff,
                            !.isInteracting = TRUE]
             ELSE [t EXCEPT !.scale = ClampScale(asked),
                            !.rotationY = t.rotationY
                                - Times(depthDiff - t.prevDepthDiff, ROTATION_SENSITIVITY),
                            !.prevDist = IF asked = ClampScale(asked) THEN dist
                                         ELSE t.prevDist,
                            !.prevDepthDiff = depthDiff]
    ELSE [t EXCEPT !.isInteracting = FALSE]

\* the first frame of an interaction applies the deltas against the old
\* prevDist and prevDepthDiff instead of resetting them
GestureLogic_NoReset(t, hands) ==
    IF IsDoublePinch(hands)
    THEN LET dist      == DistOf(hands)
             depthDiff == DepthDiffOf(hands)
         IN  [t EXCEPT !.scale = ClampScale(t.scale
                                + Times(dist - t.prevDist, SCALE_SENSITIVITY)),
                       !.rotationY = t.rotationY
                                - Times(depthDiff - t.prevDepthDiff, ROTATION_SENSITIVITY),
                       !.prevDist = dist,
                       !.prevDepthDiff = depthDiff,
                       !.isInteracting = TRUE]
    ELSE [t EXCEPT !.isInteracting = FALSE]

GestureLogic(t, hands) ==
    IF IsDoublePinch(hands)
    THEN LET dist      == DistOf(hands)
             depthDiff == DepthDiffOf(hands)
         IN  IF ~t.isInteracting
             THEN [t EXCEPT !.prevDist = dist,
                            !.prevDepthDiff = depthDiff,
                            !.isInteracting = TRUE]
             ELSE [t EXCEPT !.scale = ClampScale(t.scale
                                + Times(dist - t.prevDist, SCALE_SENSITIVITY)),
                            !.rotationY = t.rotationY
                                - Times(depthDiff - t.prevDepthDiff, ROTATION_SENSITIVITY),
                            !.prevDist = dist,
                            !.prevDepthDiff = depthDiff]
    ELSE [t EXCEPT !.isInteracting = FALSE]

(***************************************************************************)
(* utils/shapes generateShapePositions and the particle buffers.           *)
(***************************************************************************)
\* the number of particles the model follows (PARTICLE_COUNT in the source)
NParticles == 1

RETURN_SPEED == 50

DAMPING == 100

\* noise = 0.01
NOISE == 10

ShapeTypes == {"Heart", "Flower", "Saturn", "Fireworks", "Sphere"}

\* the shapes Controls offers (TEMPLATES)
Templates == {"Heart", "Flower", "Saturn", "Fireworks"}

\* Points the generator can produce for a shape, for some values of its
\* Math.random() draws.
ShapePoints(type) ==
    CASE type = "Heart"     -> {<<4000, 1000, 0>>}
      [] type = "Flower"    -> {<<9239, 3827, 0>>}
      [] type = "Saturn"    -> {<<14928, 5657, 1072>>}
      [] type = "Fireworks" -> {<<7500, 0, 0>>}
      [] OTHER              -> {<<5000, 0, 0>>}

\* the Float32Array of the points, three coordinates each
Flatten(points) ==
    [idx \in 1..(3 * Len(points)) |-> points[((idx - 1) \div 3) + 1][((idx - 1) % 3) + 1]]

\* new Float32Array(count * 3)
ZeroBuffer(count) == [idx \in 1..(3 * count) |-> 0]

\* the loop body with the write of z left out
WritePoint_NoZ(positions, i, point) ==
    [positions EXCEPT ![3 * i + 1] = point[1],
                      ![3 * i + 2] = point[2]]

\* positions[idx] = x; positions[idx + 1] = y; positions[idx + 2] = z, idx = i * 3
WritePoint(positions, i, point) ==
    [positions EXCEPT ![3 * i + 1] = point[1],
                      ![3 * i + 2] = point[2],
                      ![3 * i + 3] = point[3]]

\* for (let i = 0; i < count; i++), from iteration i on; points[i + 1] is the
\* point iteration i computes
RECURSIVE FillFrom(_, _, _, _)
FillFrom(positions, points, i, count) ==
    IF i < count
    THEN FillFrom(WritePoint(positions, i, points[i + 1]), points, i + 1, count)
    ELSE positions

\* the buffers generateShapePositions(type, count) can return
GenerateShapePositions(type, count) ==
    { FillFrom(ZeroBuffer(count), points, 0, count) :
        points \in [1..count -> ShapePoints(type)] }

\* (Math.random() - 0.5) * noise for the draws 0, 0.5 and 0.9
NoiseSet == {Times(0 - 500, NOISE), 0, Times(400, NOISE)}

NoiseVectors == [1..(3 * NParticles) -> NoiseSet]

\* every draw is Math.random() = 0.5
CalmNoise == [idx \in 1..(3 * NParticles) |-> 0]

\* the damping applied before the turbulence is added
NewVelocity_DampFirst(target, current, velocity, noise) ==
    Times(velocity + Times(target - current, RETURN_SPEED), RES - DAMPING) + noise

\* one coordinate of one particle: return force, turbulence, damping
NewVelocity(target, current, velocity, noise) ==
    Times(velocity + Times(target - current, RETURN_SPEED) + noise,
               RES - DAMPING)

(***************************************************************************)
(* State.                                                                  *)
(***************************************************************************)
VARIABLES
    ts,               \* transformState.current
    handData,         \* App.handDataRef.current
    handDetected,     \* App state handDetected
    shapeType,        \* App state currentShape
    color,            \* App state currentColor
    sceneTs,          \* whether the latest change of shape or colour found the
                      \* interaction state as it was created
    targetPositions,  \* Particles targetPositions
    currentPositions, \* Particles currentPositions
    velocities,       \* Particles velocities
    predictOutcome,   \* what the latest run of predict did
    lastFrame,        \* the index in DetectorResults of what detect gave it
    wasInteracting,   \* ts.isInteracting when the latest frame began
    wasAtBound,       \* ts.scale was 0.2 or 3.0 when the latest frame began
    lastDist,         \* dist of the latest double pinch a frame has read
    published,        \* the list most recently handed to onHandsUpdate
    slotReads,        \* frames that have read handData since it was last written
    turbulentFrames,  \* frames so far in which some draw was not 0.5
    app,              \* App state: isCameraReady, cameraError, retryKey
    vision,           \* VisionService: the static handLandmarker, landmarkers created
    mounts,           \* the WebcamHandler mounts, by retryKey
    lateCall,         \* some mount has called back into App after its cleanup
    pinch,            \* SpecPinch: the hand under the extractor and its pinchDistance
    gen,              \* SpecShapes: the latest call of generateShapePositions and its result
    saturn            \* SpecSaturn: the Saturn points generated so far, by population

gestureVars == <<ts, wasInteracting, wasAtBound, lastDist>>

slotVars == <<handData, handDetected, predictOutcome, lastFrame, published>>

particleVars == <<targetPositions, currentPositions, velocities>>

vars == <<ts, handData, handDetected, shapeType, targetPositions,
          currentPositions, velocities, predictOutcome, lastFrame, wasInteracting,
          wasAtBound, lastDist, published, slotReads, turbulentFrames,
          app, vision, mounts, lateCall, pinch, gen, saturn, color, sceneTs>>

sceneVars == <<color, sceneTs>>

lifecycleVars == <<app, vision, mounts, lateCall>>

\* the variables of the specifications that try one function on its own
probeVars == <<pinch, gen, saturn>>

\* the largest |rotationY| the model follows
MaxRotation == 1500

\* slotReads counts up to this many frames
MaxReads == 2

\* the number of turbulent frames the model follows
MaxTurbulentFrames == 1

\* the number of times Retry is pressed
MaxRetries == 1

\* the keys WebcamHandler is mounted under
MountIds == 0..MaxRetries

\* handDetected as seen by the handleHandsUpdate the vision loop holds: the
\* loop keeps the callback of the render that mounted it.
ClosureHandDetected == mounts[app.retryKey].closureHandDetected

\* isReady as seen by the oncanplay handler: the effect runs once and keeps
\* the isReady of the render that mounted it.
ClosureIsReady == FALSE

\* a key under which nothing has been mounted yet
NoMount ==
    [started |-> FALSE, active |-> FALSE, videoRef |-> FALSE, timer |-> "none",
     camera |-> "none",
     call |-> <<"none", "none">>, chains |-> 0, readyCalls |-> 0,
     closureHandDetected |-> FALSE]

\* WebcamHandler right after its effect has run: active, the 15 s timer set,
\* getUserMedia awaited
FreshMount(closure) ==
    [started |-> TRUE, active |-> TRUE, videoRef |-> TRUE, timer |-> "armed",
     camera |-> "pending",
     call |-> <<"none", "none">>, chains |-> 0, readyCalls |-> 0,
     closureHandDetected |-> closure]

\* the application as it is first rendered
FirstMount ==
    /\ app = [isCameraReady |-> FALSE, cameraError |-> "none", retryKey |-> 0]
    /\ vision = [handLandmarker |-> 0, created |-> 0]
    /\ mounts = [m \in MountIds |-> IF m = 0 THEN FreshMount(FALSE) ELSE NoMount]
    /\ lateCall = FALSE

\* the application once the first mount has come up: video ready at once,
\* one landmarker created, onCameraReady called, one predict loop running
VisionRunning ==
    /\ app = [isCameraReady |-> TRUE, cameraError |-> "none", retryKey |-> 0]
    /\ vision = [handLandmarker |-> 1, created |-> 1]
    /\ mounts = [m \in MountIds |->
                   IF m = 0
                   THEN [FreshMount(FALSE) EXCEPT !.timer = "cleared",
                                                  !.camera = "direct",
                                                  !.call = <<"done", "none">>,
                                                  !.chains = 1,
                                                  !.readyCalls = 1]
                   ELSE NoMount]
    /\ lateCall = FALSE

\* the program after its first render
InitProgram ==
    /\ ts = [scale |-> 1000, rotationY |-> 0, prevDist |-> 0,
             prevDepthDiff |-> 0, isInteracting |-> FALSE]
    /\ handData = <<>>
    /\ handDetected = FALSE
    /\ shapeType = "Heart"
    /\ color = "#ff0055"
    /\ sceneTs = "no change yet"
    /\ targetPositions \in GenerateShapePositions("Heart", NParticles)
    /\ currentPositions = targetPositions
    /\ velocities = ZeroBuffer(NParticles)
    /\ predictOutcome = "none"
    /\ lastFrame = 0
    /\ wasInteracting = FALSE
    /\ wasAtBound = FALSE
    /\ lastDist = 0
    /\ published = <<>>
    /\ slotReads = 0
    /\ turbulentFrames = 0
    /\ gen = [type |-> "Heart", count |-> 0, positions |-> <<>>]
    /\ saturn = [drawn |-> {}, body |-> 0, ring |-> 0, point |-> <<>>]

Init ==
    /\ InitProgram
    /\ VisionRunning
    /\ pinch = [rawPinchDist |-> 0, handScale |-> 1, pinchDistance |-> <<>>]

\* the slot keeps the last non-empty list when an empty one is published
HandleHandsUpdate_KeepNonEmpty(metrics) ==
    /\ handData' = IF Len(metrics) = 0 THEN handData ELSE metrics
    /\ handDetected' = IF Len(metrics) > 0 /\ ~ClosureHandDetected THEN TRUE
                       ELSE IF Len(metrics) = 0 /\ ClosureHandDetected THEN FALSE
                       ELSE handDetected

\* App.handleHandsUpdate
HandleHandsUpdate(metrics) ==
    /\ handData' = metrics
    /\ handDetected' = IF Len(metrics) > 0 /\ ~ClosureHandDetected THEN TRUE
                       ELSE IF Len(metrics) = 0 /\ ClosureHandDetected THEN FALSE
                       ELSE handDetected

\* the try block of predict on the video frame for which detect gives
\* DetectorResults[k]
PredictBody(k) ==
    /\ predictOutcome' = Predicted[k].outcome
    /\ lastFrame' = k
    /\ IF Predicted[k].outcome = "published"
       THEN /\ published' = Predicted[k].metrics
            /\ slotReads' = 0
            /\ HandleHandsUpdate(Predicted[k].metrics)
       ELSE UNCHANGED <<handData, handDetected, published, slotReads>>
    /\ UNCHANGED <<gestureVars, shapeType, sceneVars, particleVars, turbulentFrames,
                   probeVars>>

\* a predict whose next frame is requested inside the try block
Rescheduled_InsideTry(chains, outcome) ==
    IF outcome = "published" THEN chains ELSE chains - 1

\* requestRef.current = requestAnimationFrame(predict), after the try block:
\* the loops of the mount that stay alive
Rescheduled(chains, outcome) == chains

\* WebcamHandler.predict of the running loop: the frame is processed and the
\* next one requested
PredictOn(k) ==
    /\ mounts[app.retryKey].chains > 0
    /\ PredictBody(k)
    /\ mounts' = [mounts EXCEPT ![app.retryKey].chains =
                      Rescheduled(@, Predicted[k].outcome)]
    /\ UNCHANGED <<app, vision, lateCall>>

Predict == \E k \in DOMAIN DetectorResults : PredictOn(k)

\* Particles.useFrame with the given turbulence draws.  The mesh is mounted
\* before the first frame, so the early return is never taken; the mesh
\* transform and the material colour only read ts and are not followed.
\* wasInteracting, wasAtBound, lastDist, slotReads and turbulentFrames are
\* bookkeeping of the model.
FrameOn(noise) ==
    /\ slotReads' = Min(slotReads + 1, MaxReads)
    /\ UNCHANGED <<slotVars, shapeType, sceneVars, targetPositions, probeVars,
                   lifecycleVars>>
    /\ wasInteracting' = ts.isInteracting
    /\ wasAtBound' = (ts.scale \in {MIN_SCALE, MAX_SCALE})
    /\ lastDist' = IF IsDoublePinch(handData) THEN DistOf(handData) ELSE lastDist
    /\ ts' = GestureLogic(ts, handData)
    /\ Abs(ts'.rotationY) <= MaxRotation
    /\ velocities' = [idx \in DOMAIN velocities |->
                        NewVelocity(targetPositions[idx], currentPositions[idx],
                                    velocities[idx], noise[idx])]
    /\ currentPositions' = [idx \in DOMAIN currentPositions |->
                              currentPositions[idx] + velocities'[idx]]
    /\ turbulentFrames' = IF noise = CalmNoise THEN turbulentFrames
                          ELSE turbulentFrames + 1

\* a frame whose draws are all 0.5
Frame == FrameOn(CalmNoise)

\* a frame with some other draw
TurbulentFrame ==
    /\ turbulentFrames < MaxTurbulentFrames
    /\ \E noise \in NoiseVectors \ {CalmNoise} : FrameOn(noise)

\* the interaction state of a new Particles
InitialTransform ==
    [scale |-> 1000, rotationY |-> 0, prevDist |-> 0,
     prevDepthDiff |-> 0, isInteracting |-> FALSE]

\* a shape change that makes the interaction state anew, as it does the buffers
SetCurrentShape_ResetTransform(type) ==
    /\ type # shapeType
    /\ shapeType' = type
    /\ targetPositions' \in GenerateShapePositions(type, NParticles)
    /\ currentPositions' = targetPositions'
    /\ velocities' = ZeroBuffer(NParticles)
    /\ ts' = InitialTransform
    /\ UNCHANGED <<wasInteracting, wasAtBound, lastDist, slotVars, slotReads,
                   turbulentFrames, probeVars, lifecycleVars, color>>

\* Controls onShapeChange -> App setCurrentShape -> the useMemo buffers of
\* Particles are recomputed by the render that follows; transformState is a
\* ref of the same Particles and is left alone
SetCurrentShape(type) ==
    /\ type # shapeType
    /\ shapeType' = type
    /\ targetPositions' \in GenerateShapePositions(type, NParticles)
    /\ currentPositions' = targetPositions'
    /\ velocities' = ZeroBuffer(NParticles)
    /\ UNCHANGED <<gestureVars, slotVars, slotReads, turbulentFrames, probeVars,
                   lifecycleVars, color>>

ShapeChange(type) == SetCurrentShape(type) /\ UNCHANGED sceneTs

ChangeShape == \E type \in Templates : ShapeChange(type)

Next == Predict \/ Frame \/ ChangeShape

Spec == Init /\ [][Next]_vars

\* the largest thumb-index gap the extractor is tried on
MaxRawPinch == 300

\* hand scales the extractor is tried on: 0.001 up to the image diagonal
HandScales == {1, 40, 250, 1414}

InitPinch ==
    /\ InitProgram
    /\ VisionRunning
    /\ pinch \in {[rawPinchDist |-> raw, handScale |-> hs, pinchDistance |-> <<>>] :
                    raw \in 0..MaxRawPinch, hs \in HandScales}

\* predict's map callback up to normalizedPinch, on the hand under the extractor
ExtractPinch ==
    /\ pinch.pinchDistance = <<>>
    /\ pinch' = [pinch EXCEPT !.pinchDistance =
                    <<NormalizedPinch(RelativePinch(pinch.rawPinchDist, pinch.handScale))>>]
    /\ UNCHANGED <<gestureVars, slotVars, slotReads, shapeType, sceneVars, particleVars,
                   turbulentFrames, gen, saturn, lifecycleVars>>

\* the same on the next video frame, the thumb-index gap one unit wider
WidenPinch ==
    /\ pinch.pinchDistance # <<>>
    /\ pinch.rawPinchDist < MaxRawPinch
    /\ pinch' = [pinch EXCEPT
                    !.rawPinchDist = pinch.rawPinchDist + 1,
                    !.pinchDistance =
                        <<NormalizedPinch(RelativePinch(pinch.rawPinchDist + 1,
                                                        pinch.handScale))>>]
    /\ UNCHANGED <<gestureVars, slotVars, slotReads, shapeType, sceneVars, particleVars,
                   turbulentFrames, gen, saturn, lifecycleVars>>

NextPinch == ExtractPinch \/ WidenPinch

\* the pinch extraction alone, over a range of gaps and hand scales
SpecPinch == InitPinch /\ [][NextPinch]_vars

\* the particle system alone: no vision loop, turbulence drawn freely
NextParticles == Frame \/ TurbulentFrame \/ ChangeShape

SpecParticles == Init /\ [][NextParticles]_vars

(***************************************************************************)
(* App's camera handlers, WebcamHandler's effect and VisionService.         *)
(* A state update of App and the render that follows it are one step.       *)
(***************************************************************************)
\* App.handleCameraReady
HandleCameraReady(a) == [a EXCEPT !.isCameraReady = TRUE, !.cameraError = "none"]

\* the error handler that leaves isCameraReady as it is
HandleCameraError_KeepReady(a, error) == [a EXCEPT !.cameraError = error]

\* App.handleCameraError
HandleCameraError(a, error) ==
    [a EXCEPT !.cameraError = error, !.isCameraReady = FALSE]

\* a retry that leaves the error in place
HandleRetry_KeepError(a) ==
    [a EXCEPT !.isCameraReady = FALSE, !.retryKey = @ + 1]

\* App.handleRetry
HandleRetry(a) ==
    [a EXCEPT !.cameraError = "none", !.isCameraReady = FALSE, !.retryKey = @ + 1]

\* WebcamHandler leaves the tree: React clears videoRef, then the effect's
\* cleanup sets active = false, clears the timer and cancels the animation
\* frame requestRef holds, which is the latest one requested by any loop
Unmount(mt) ==
    [mt EXCEPT !.active = FALSE,
               !.videoRef = FALSE,
               !.timer = IF @ = "armed" THEN "cleared" ELSE @,
               !.chains = IF @ > 0 THEN @ - 1 ELSE 0]

\* App's render with state a: WebcamHandler is in the tree, under key
\* a.retryKey, exactly when a.cameraError is null
Render(a, mts) ==
    [m \in MountIds |->
        IF mts[m].videoRef /\ (a.cameraError # "none" \/ m # a.retryKey)
        THEN Unmount(mts[m])
        ELSE IF a.cameraError = "none" /\ m = a.retryKey /\ ~mts[m].started
        THEN FreshMount(handDetected)
        ELSE mts[m]]

\* handleError without its test of active
HandleErrorRuns_Always(active) == TRUE

\* handleError: if (!active) return
HandleErrorRuns(active) == active

\* handleError(error) of mount m, the mounts being mts
HandleError(m, mts, error) ==
    IF HandleErrorRuns(mts[m].active)
    THEN /\ app' = HandleCameraError(app, error)
         /\ mounts' = Render(HandleCameraError(app, error), mts)
         /\ lateCall' = (lateCall \/ ~mts[m].active)
    ELSE /\ mounts' = mts
         /\ UNCHANGED <<app, lateCall>>

\* a clearTimeout that leaves the timer running
ClearTimeout_Noop(mts, m) == mts

\* clearTimeout(timeoutId)
ClearTimeout(mts, m) ==
    [mts EXCEPT ![m].timer = IF @ = "armed" THEN "cleared" ELSE @]

\* the catch of initializeVision and of startCamera
Failed(m, mts, error) == HandleError(m, ClearTimeout(mts, m), error)

\* the rest of initializeVision once VisionService.initialize() has returned
Succeeded(m, mts) ==
    IF mts[m].active
    THEN /\ app' = HandleCameraReady(app)
         /\ mounts' = Render(HandleCameraReady(app),
                             [ClearTimeout(mts, m) EXCEPT ![m].chains = @ + 1,
                                                          ![m].readyCalls = @ + 1])
         /\ lateCall' = lateCall
    ELSE /\ mounts' = mts
         /\ UNCHANGED <<app, lateCall>>

restVars == <<gestureVars, slotVars, slotReads, shapeType, sceneVars, particleVars,
              turbulentFrames, probeVars>>

\* getUserMedia resolves; readyNow says whether video.readyState >= 2
CameraGranted(m, readyNow) ==
    /\ mounts[m].camera = "pending"
    /\ mounts' = [mounts EXCEPT ![m] =
            IF ~@.active THEN [@ EXCEPT !.camera = "stopped"]
            ELSE IF ~@.videoRef THEN [@ EXCEPT !.camera = "granted"]
            ELSE IF readyNow THEN [@ EXCEPT !.camera = "direct", !.call[1] = "play"]
            ELSE [@ EXCEPT !.camera = "waiting"]]
    /\ UNCHANGED <<app, vision, lateCall, restVars>>

\* getUserMedia rejects
CameraDenied(m) ==
    /\ mounts[m].camera = "pending"
    /\ Failed(m, [mounts EXCEPT ![m].camera = "denied"], "camera")
    /\ UNCHANGED <<vision, restVars>>

\* video.onloadedmetadata, which fires once: it does nothing unless the
\* mount is active and has its video
LoadedMetadata(m) ==
    /\ mounts[m].camera = "waiting"
    /\ mounts[m].call[1] = "none"
    /\ mounts[m].active /\ mounts[m].videoRef
    /\ mounts' = [mounts EXCEPT ![m].call[1] = "play"]
    /\ UNCHANGED <<app, vision, lateCall, restVars>>

\* video.oncanplay, which fires once: it does nothing unless the mount is
\* active, has its video and sees isReady false
CanPlay(m) ==
    /\ mounts[m].camera = "waiting"
    /\ mounts[m].call[2] = "none"
    /\ mounts[m].active /\ mounts[m].videoRef /\ ~ClosureIsReady
    /\ mounts' = [mounts EXCEPT ![m].call[2] = "play"]
    /\ UNCHANGED <<app, vision, lateCall, restVars>>

\* video.play() resolves and VisionService.initialize() is entered: it
\* returns the stored landmarker if there is one, else awaits the fileset and
\* then the creation, between which it touches nothing
PlayResolved(m, c) ==
    /\ mounts[m].call[c] = "play"
    /\ IF vision.handLandmarker # 0
       THEN Succeeded(m, [mounts EXCEPT ![m].call[c] = "done"])
       ELSE /\ mounts' = [mounts EXCEPT ![m].call[c] = "creating"]
            /\ UNCHANGED <<app, lateCall>>
    /\ UNCHANGED <<vision, restVars>>

\* video.play() rejects
PlayRejected(m, c) ==
    /\ mounts[m].call[c] = "play"
    /\ Failed(m, [mounts EXCEPT ![m].call[c] = "play rejected"], "init")
    /\ UNCHANGED <<vision, restVars>>

\* a failed creation that leaves a handle behind
CreationFailed_Cached(v) == [v EXCEPT !.handLandmarker = v.created + 1]

\* the catch of initialize: nothing is stored
CreationFailed(v) == v

\* this.handLandmarker = await HandLandmarker.createFromOptions(...)
CreationDone(v) == [handLandmarker |-> v.created + 1, created |-> v.created + 1]

\* createFromOptions resolves: the new landmarker is stored and returned
LandmarkerCreated(m, c) ==
    /\ mounts[m].call[c] = "creating"
    /\ vision' = CreationDone(vision)
    /\ Succeeded(m, [mounts EXCEPT ![m].call[c] = "done"])
    /\ UNCHANGED restVars

\* forVisionTasks or createFromOptions rejects: initialize rethrows
LandmarkerFailed(m, c) ==
    /\ mounts[m].call[c] = "creating"
    /\ vision' = CreationFailed(vision)
    /\ Failed(m, [mounts EXCEPT ![m].call[c] = "initialize threw"], "init")
    /\ UNCHANGED restVars

\* the 15 s timer of startCamera fires
TimerFired(m) ==
    /\ mounts[m].timer = "armed"
    /\ HandleError(m, [mounts EXCEPT ![m].timer = "fired"], "timeout")
    /\ UNCHANGED <<vision, restVars>>

\* the Retry button of the error overlay
Retry ==
    /\ app.cameraError # "none"
    /\ app.retryKey < MaxRetries
    /\ app' = HandleRetry(app)
    /\ mounts' = Render(HandleRetry(app), mounts)
    /\ UNCHANGED <<vision, lateCall, restVars>>

\* the detector results the loop of a mount is fed: one hand, and a hand
\* and a malformed one
MountResults == {3, 15}

\* one animation frame of a predict loop of mount m
MountPredict(m, k) ==
    /\ mounts[m].chains > 0
    /\ IF mounts[m].videoRef /\ vision.handLandmarker # 0
       THEN /\ PredictBody(k)
            /\ mounts' = [mounts EXCEPT ![m].chains =
                              Rescheduled(@, Predicted[k].outcome)]
            /\ lateCall' = (lateCall \/ (Predicted[k].outcome = "published"
                                          /\ ~mounts[m].active))
       ELSE UNCHANGED <<mounts, lateCall, restVars>>
    /\ UNCHANGED <<app, vision>>

\* the steps of the start-up of mount m
StartupStep(m) ==
    \/ \E readyNow \in BOOLEAN : CameraGranted(m, readyNow)
    \/ CameraDenied(m)
    \/ LoadedMetadata(m)
    \/ CanPlay(m)
    \/ \E c \in 1..2 :
          \/ PlayResolved(m, c)
          \/ PlayRejected(m, c)
          \/ LandmarkerCreated(m, c)
          \/ LandmarkerFailed(m, c)
    \/ TimerFired(m)

MountStep(m) == StartupStep(m) \/ \E k \in MountResults : MountPredict(m, k)

NextMount == Retry \/ \E m \in MountIds : MountStep(m)

NextStartup == Retry \/ \E m \in MountIds : StartupStep(m)

InitMount ==
    /\ InitProgram
    /\ FirstMount
    /\ pinch = [rawPinchDist |-> 0, handScale |-> 1, pinchDistance |-> <<>>]

\* the camera and vision start-up, with retries
SpecMount == InitMount /\ [][NextMount]_vars

\* the start-up alone, with timers that fire unless they are cleared first
SpecStartup ==
    /\ InitMount
    /\ [][NextStartup]_vars
    /\ \A m \in MountIds : WF_vars(TimerFired(m))

\* the cells of equal width the range of Math.random() is cut into
DrawCells == 10

\* Math.random(): the midpoints of the cells, each as likely as the others
UniformDraws == {((2 * k + 1) * RES) \div (2 * DrawCells) : k \in 0..(DrawCells - 1)}

\* Math.cbrt(u), rounded down
Cbrt(u) == CHOOSE r \in 0..RES : r * r * r <= u * RES * RES /\ u * RES * RES < (r + 1) * (r + 1) * (r + 1)

\* Math.cbrt of every draw, computed once
CubeRoots == [v \in UniformDraws |-> Cbrt(v)]

\* const isRing = Math.random() > 0.4
SaturnIsRing(u) == u > 400

\* the Saturn point for the draws u (the population) and v (the radius):
\* its population and its distance from the axis (ring) or the centre
\* (body), before the tilt, which keeps both
SaturnPoint(u, v) ==
    IF SaturnIsRing(u)
    THEN [population |-> "ring", radius |-> 12 * RES + Times(v, 8 * RES)]
    ELSE [population |-> "body", radius |-> Times(8 * RES, CubeRoots[v])]

\* one iteration of the loop of generateShapePositions(SATURN, count) whose
\* first draw is the midpoint u of a cell not drawn from before
SaturnOn(u, v) ==
    /\ u \notin saturn.drawn
    /\ saturn' = [drawn |-> saturn.drawn \cup {u},
                  body |-> IF SaturnIsRing(u) THEN saturn.body ELSE saturn.body + 1,
                  ring |-> IF SaturnIsRing(u) THEN saturn.ring + 1 ELSE saturn.ring,
                  point |-> <<SaturnPoint(u, v)>>]
    /\ UNCHANGED <<gestureVars, slotVars, slotReads, shapeType, sceneVars, particleVars,
                   turbulentFrames, pinch, gen, lifecycleVars>>

NextSaturn == \E u \in UniformDraws, v \in UniformDraws : SaturnOn(u, v)

\* the Saturn generator over draws spread evenly over [0, 1)
SpecSaturn == Init /\ [][NextSaturn]_vars

\* the colours Controls offers (COLORS)
Colors == {"#ff0055", "#00ccff", "#ffcc00", "#cc00ff", "#00ff66", "#ffffff"}

\* Controls onColorChange -> App setCurrentColor -> the render that follows
\* makes a new colorObj; the buffers and transformState are left alone
SetCurrentColor(c) ==
    /\ c # color
    /\ color' = c
    /\ UNCHANGED <<gestureVars, slotVars, slotReads, shapeType, particleVars,
                   turbulentFrames, probeVars, lifecycleVars>>

\* a change of shape or colour, with the interaction state it found
SceneChange ==
    /\ \/ \E type \in Templates : SetCurrentShape(type)
       \/ \E c \in Colors : SetCurrentColor(c)
    /\ sceneTs' = IF ts = InitialTransform THEN "as created" ELSE "in use"

\* no hands, and two pinched hands at two distances and two depths
SceneResults == {2, 4, 6, 7}

PredictScene == \E k \in SceneResults : PredictOn(k)

NextScene == PredictScene \/ Frame \/ SceneChange

\* the gesture loop next to the shape and colour controls
SpecScene == Init /\ [][NextScene]_vars

\* the vision loop while the user holds still: no hands, or one double pinch
SteadyResults == {2, 4}

PredictSteady == \E k \in SteadyResults : PredictOn(k)

\* the draws of a frame in which one coordinate alone is not 0.5
SingleDraws ==
    {noise \in NoiseVectors : Cardinality({idx \in DOMAIN noise : noise[idx] # 0}) = 1}

\* a frame that stirs one coordinate of one particle
StirredFrame ==
    /\ turbulentFrames < MaxTurbulentFrames
    /\ \E noise \in SingleDraws : FrameOn(noise)

NextForces == PredictSteady \/ Frame \/ StirredFrame

\* the particle update under turbulence, with hands absent and present
SpecForces == Init /\ [][NextForces]_vars

\* the largest count the generator is tried on
MaxCount == 3

\* the ShapeType values and a value that is none of them
GeneratorTypes == ShapeTypes \cup {"Unknown"}

\* a call generateShapePositions(type, count)
GenerateOn(type, count) ==
    /\ gen' \in {[type |-> type, count |-> count, positions |-> positions] :
                    positions \in GenerateShapePositions(type, count)}
    /\ UNCHANGED <<gestureVars, slotVars, slotReads, shapeType, sceneVars, particleVars,
                   turbulentFrames, pinch, saturn, lifecycleVars>>

Generate == \E type \in GeneratorTypes, count \in 0..MaxCount : GenerateOn(type, count)

NextShapes == Generate \/ ChangeShape \/ Frame

\* the generator on every type and a range of counts, next to the simulator's
\* own calls of it
SpecShapes == Init /\ [][NextShapes]_vars


(***************************************************************************)
(* Properties of the gesture state machine.                                *)
(***************************************************************************)
\* The double-pinch condition, stated on the list a frame reads.
BothPinched(hands) ==
    /\ Len(hands) = 2
    /\ \A i \in 1..2 : hands[i].pinchDistance # NaN /\ hands[i].pinchDistance < 400

\* The palm with the smaller x is the left one; on a tie, the first.
LeftPalm(hands) ==
    IF hands[2].palmPosition.x < hands[1].palmPosition.x
    THEN hands[2].palmPosition ELSE hands[1].palmPosition

RightPalm(hands) ==
    IF hands[2].palmPosition.x < hands[1].palmPosition.x
    THEN hands[1].palmPosition ELSE hands[2].palmPosition

PlanarDistance(hands) ==
    Hypot(hands[1].palmPosition.x - hands[2].palmPosition.x,
          hands[1].palmPosition.y - hands[2].palmPosition.y)

DepthDifference(hands) == RightPalm(hands).z - LeftPalm(hands).z

ScaleAndRotationKept == ts'.scale = ts.scale /\ ts'.rotationY = ts.rotationY

C2_InteractingToIdle ==
    [][Frame =>
          /\ ~BothPinched(handData) => ~ts'.isInteracting
          /\ ~ts'.isInteracting => ScaleAndRotationKept]_vars

\* an interaction that changed the scale has just ended on a pinch of exactly 0.4
C2_Witness ==
    /\ wasInteracting
    /\ ~ts.isInteracting
    /\ slotReads = 1
    /\ Len(handData) = 2
    /\ handData[2].pinchDistance = 400
    /\ ts.scale # 1000

\* C3: scale is always within [0.2, 3.0].
C3_ScaleClamped == 200 <= ts.scale /\ ts.scale <= 3000

\* the hands have just been pulled from touching to 1.4 apart, which asks
\* for +2.8, and scale sits at the upper bound
C3_Witness ==
    /\ wasInteracting
    /\ ts.isInteracting
    /\ ts.prevDist = 1400
    /\ ts.scale = 3000


Clamped(scale) == IF scale < 200 THEN 200 ELSE IF scale > 3000 THEN 3000 ELSE scale

\* C4: a frame that starts interacting and reads a double pinch sets scale to
\* clamp(scale + (dist - prevDist) * 2.0, 0.2, 3.0), rotationY to
\* rotationY - (depthDiff - prevDepthDiff) * 1.5, and prevDist and
\* prevDepthDiff to this frame's dist and depthDiff.
C4_InteractingUpdate ==
    [][ts.isInteracting /\ BothPinched(handData) /\ Frame =>
          /\ ts'.isInteracting
          /\ ts'.scale = Clamped(ts.scale + 2 * (PlanarDistance(handData) - ts.prevDist))
          /\ 2 * ts'.rotationY =
                2 * ts.rotationY - 3 * (DepthDifference(handData) - ts.prevDepthDiff)
          /\ ts'.prevDist = PlanarDistance(handData)
          /\ ts'.prevDepthDiff = DepthDifference(handData)]_vars

\* an interacting frame has just moved both the scale and the rotation
C4_Witness ==
    /\ wasInteracting
    /\ ts.isInteracting
    /\ slotReads = 1
    /\ ts.scale = 1400
    /\ ts.rotationY = 1500
    /\ ts.prevDist = PlanarDistance(handData)
    /\ ts.prevDepthDiff = DepthDifference(handData)

\* C5: between two interacting frames, a change of distance alone leaves
\* rotationY and changes scale by twice the change (clamped), and a change of
\* depth difference alone leaves scale.
C5_ChannelsIndependent ==
    [][ts.isInteracting /\ ts'.isInteracting /\ Frame =>
          /\ DepthDifference(handData) = ts.prevDepthDiff =>
                /\ ts'.rotationY = ts.rotationY
                /\ ts'.scale = Clamped(ts.scale + 2 * (PlanarDistance(handData) - ts.prevDist))
          /\ PlanarDistance(handData) = ts.prevDist => ts'.scale = ts.scale]_vars

\* palms at x = -0.3 and 0.3, then at -0.5 and 0.3 with the depth unchanged:
\* scale has gone from 1.0 to 1.4 and rotationY is still 0
C5_Witness ==
    /\ wasInteracting
    /\ ts.isInteracting
    /\ slotReads = 1
    /\ LeftPalm(handData).x = 0 - 500
    /\ RightPalm(handData).x = 300
    /\ ts.prevDist = 800
    /\ ts.prevDepthDiff = 0
    /\ ts.scale = 1400
    /\ ts.rotationY = 0

\* C6: a step that begins or ends with isInteracting false leaves scale and
\* rotationY alone, so the first frame of an interaction ends with the values
\* the previous interaction left, whatever prevDist and prevDepthDiff it had
\* and wherever the hands are now.
C6_CleanRebaseline ==
    [][~ts.isInteracting \/ ~ts'.isInteracting => ScaleAndRotationKept]_vars

\* a later interaction has just begun, 1.4 apart, after earlier ones changed
\* scale and rotationY
C6_Witness ==
    /\ ~wasInteracting
    /\ ts.isInteracting
    /\ slotReads = 1
    /\ ts.prevDist = 1400
    /\ ts.prevDist = PlanarDistance(handData)
    /\ ts.scale # 1000
    /\ ts.rotationY # 0


(***************************************************************************)
(* Properties of the buffers, the slot and the extractor.                  *)
(***************************************************************************)
\* C7: a change of ShapeType replaces the target cloud and leaves the position
\* and velocity buffers with the values they had.
C7_BuffersRetained ==
    [][shapeType' # shapeType =>
          /\ currentPositions' = currentPositions
          /\ velocities' = velocities]_vars

\* C8: the slot always holds the list most recently handed to onHandsUpdate,
\* whether or not a frame has read the one before and however many frames
\* have read it since.
C8_LatestValueSlot == handData = published

\* the latest publication, a double pinch, has been read by two or more
\* frames with no publication in between
C8_Witness ==
    /\ predictOutcome = "published"
    /\ slotReads = 2
    /\ handData = published
    /\ BothPinched(handData)
    /\ wasInteracting
    /\ ts.isInteracting

\* C9: after a video frame whose landmark data made the extraction throw, the
\* slot holds no hands.
C9_MalformedFrameIsIdle == predictOutcome = "extraction threw" => handData = <<>>

PinchComputed == pinch.pinchDistance # <<>>

\* C10: for a gap raw >= 0 and a hand scale > 0 the published pinchDistance is
\* within [0, 1], is 0 when raw / handScale <= 0.2 and 1 when
\* raw / handScale >= 1.0, and does not decrease when raw grows.
C10_PinchRange ==
    /\ [](PinchComputed =>
            /\ 0 <= pinch.pinchDistance[1] /\ pinch.pinchDistance[1] <= 1000
            /\ 5 * pinch.rawPinchDist <= pinch.handScale => pinch.pinchDistance[1] = 0
            /\ pinch.rawPinchDist >= pinch.handScale => pinch.pinchDistance[1] = 1000)
    /\ [][PinchComputed /\ pinch'.handScale = pinch.handScale
             /\ pinch'.rawPinchDist >= pinch.rawPinchDist
          => pinch'.pinchDistance[1] >= pinch.pinchDistance[1]]_vars

\* a gap of 0.128 on a hand of scale 0.25 gives a pinchDistance of 0.39
C10_Witness ==
    /\ PinchComputed
    /\ pinch.handScale = 250
    /\ pinch.rawPinchDist = 128
    /\ pinch.pinchDistance[1] = 390

\* C11: no published record, whatever the hand geometry (a hand scale of zero
\* included), has a pinchDistance that is NaN or outside [0, 1].
C11_DegenerateGuarded ==
    \A i \in DOMAIN handData :
        /\ handData[i].pinchDistance # NaN
        /\ 0 <= handData[i].pinchDistance
        /\ handData[i].pinchDistance <= 1000

PointAt(buffer, i) == <<buffer[3 * i - 2], buffer[3 * i - 1], buffer[3 * i]>>

C17_StaleInputHarmless ==
    [][/\ slotReads >= 1 => ScaleAndRotationKept
       /\ ~ScaleAndRotationKept =>
             /\ BothPinched(handData)
             /\ \/ PlanarDistance(handData) # ts.prevDist
                \/ DepthDifference(handData) # ts.prevDepthDiff]_vars

\* two or more frames have read the same double pinch, after the frame that
\* first read it changed both scale and rotationY
C17_Witness ==
    /\ slotReads = MaxReads
    /\ BothPinched(handData)
    /\ wasInteracting
    /\ ts.isInteracting
    /\ ts.prevDist = PlanarDistance(handData)
    /\ ts.prevDepthDiff = DepthDifference(handData)
    /\ ts.scale = 1400
    /\ ts.rotationY = 1500

\* C18: a frame that reads a double pinch takes the hand with the smaller
\* palmPosition.x as left and the other as right, and the first of the list
\* as left when the two x are equal: prevDepthDiff becomes right.z - left.z
\* accordingly; and the frame leaves the list in the slot in its order.
C18_LeftRightAssignment ==
    [][BothPinched(handData) /\ Frame =>
          LET first  == handData[1].palmPosition
              second == handData[2].palmPosition
          IN  /\ first.x < second.x => ts'.prevDepthDiff = second.z - first.z
              /\ first.x > second.x => ts'.prevDepthDiff = first.z - second.z
              /\ first.x = second.x => ts'.prevDepthDiff = second.z - first.z
              /\ handData' = handData]_vars

\* a frame has just read two pinched hands with the same x, the first one
\* nearer the camera: the first is left, so right.z - left.z is -1.0
C18_Witness ==
    /\ slotReads = 1
    /\ BothPinched(handData)
    /\ handData[1].palmPosition.x = handData[2].palmPosition.x
    /\ handData[1].palmPosition.z = 2000
    /\ handData[2].palmPosition.z = 1000
    /\ ts.isInteracting
    /\ ts.prevDepthDiff = 0 - 1000

\* C19: a frame that reads two hands with distinct palmPosition.x ends with
\* the isInteracting, scale, rotationY, prevDist and prevDepthDiff it would
\* have ended with had the detector listed the two hands the other way round.
C19_DetectorOrderIrrelevant ==
    [][/\ Len(handData) = 2
       /\ handData[1].palmPosition.x # handData[2].palmPosition.x
       /\ Frame
       => ts' = GestureLogic(ts, <<handData[2], handData[1]>>)]_vars

\* an interacting frame has just read a double pinch that lists the right
\* hand first and is 0.2 narrower than the one before, in an interaction
\* that has also turned the cloud
C19_Witness ==
    /\ slotReads = 1
    /\ wasInteracting
    /\ ts.isInteracting
    /\ Len(handData) = 2
    /\ handData[1].palmPosition.x = 300
    /\ handData[2].palmPosition.x = 0 - 300
    /\ ts.prevDist = 600
    /\ ts.scale = 600
    /\ ts.rotationY # 0

\* C20: when an interacting frame finds scale at 3.0 and a double pinch that
\* is d narrower than the one the frame before read, scale becomes
\* max(0.2, 3.0 - 2.0 * d); when it finds scale at 0.2 and a double pinch
\* that is d wider, scale becomes min(3.0, 0.2 + 2.0 * d); whatever the frames
\* before asked for.
C20_NoClampWindUp ==
    [][ts.isInteracting /\ BothPinched(handData) /\ Frame =>
          LET d == PlanarDistance(handData) - lastDist
          IN  /\ ts.scale = 3000 /\ d < 0 => ts'.scale = Max(200, 3000 + 2 * d)
              /\ ts.scale = 200 /\ d > 0 => ts'.scale = Min(3000, 200 + 2 * d)]_vars

\* scale sat at 3.0 with the hands 1.4 apart; the frame just run read them
\* 0.8 apart and scale is 3.0 - 2.0 * 0.6 = 1.8
C20_Witness ==
    /\ wasAtBound
    /\ wasInteracting
    /\ ts.isInteracting
    /\ slotReads = 1
    /\ ts.prevDist = 800
    /\ ts.scale = 1800

(***************************************************************************)
(* Properties of the vision loop.                                          *)
(***************************************************************************)
\* C21: after a video frame that was processed without an exception the slot
\* holds one record per hand the detector reported, in the detector's order
\* (record i carries the palm of hand i), each with presence true, and the
\* empty list when it reported none; and once a frame has read an empty slot
\* the simulator is idle.
C21_PublishedListShape ==
    /\ predictOutcome = "published" =>
          LET hands == DetectorResults[lastFrame].landmarks
          IN  /\ Len(handData) = Len(hands)
              /\ \A i \in 1..Len(hands) :
                    /\ handData[i].presence = TRUE
                    /\ handData[i].palmPosition.x = (0 - 2) * (hands[i][0].x - 500)
                    /\ handData[i].palmPosition.y = (0 - 2) * (hands[i][0].y - 500)
    /\ handData = <<>> /\ slotReads >= 1 => ~ts.isInteracting

\* the detector reported no hands in the middle of an interaction: the slot
\* was overwritten with the empty list and the frame that read it went idle
C21_Witness ==
    /\ predictOutcome = "published"
    /\ DetectorResults[lastFrame].landmarks = <<>>
    /\ handData = <<>>
    /\ slotReads = 1
    /\ wasInteracting
    /\ ~ts.isInteracting

\* C30: the handDetected flag says whether the most recently published hand
\* list is non-empty.
C30_IndicatorTracksSlot == handDetected = (Len(published) > 0)

(***************************************************************************)
(* Properties of the particle update.                                      *)
(***************************************************************************)
\* a step in which no hands are in the slot and the target cloud is held
NoHandsHeldTarget == handData = <<>> /\ targetPositions' = targetPositions

\* the coordinate sits on its target with no velocity
AtRest(idx) == velocities[idx] = 0 /\ currentPositions[idx] = targetPositions[idx]

\* C13: with no hands and a held target, a coordinate that has reached its
\* target with zero velocity (the limit the return-and-damping update drives
\* it to) is still on its target after the frame.
C13_IdleStability ==
    [][NoHandsHeldTarget =>
          \A idx \in DOMAIN currentPositions :
              AtRest(idx) => currentPositions'[idx] = targetPositions[idx]]_vars

\* the sum over the first n particles of the distance to the target
RECURSIVE DistanceSum(_, _, _)
DistanceSum(current, target, n) ==
    IF n = 0 THEN 0
    ELSE DistanceSum(current, target, n - 1)
         + Hypot3(current[3 * n - 2] - target[3 * n - 2],
                  current[3 * n - 1] - target[3 * n - 1],
                  current[3 * n] - target[3 * n])

\* C14: with no hands and a held target, the mean particle-to-target distance
\* never grows from one frame to the next.
C14_MonotonicConvergence ==
    [][NoHandsHeldTarget =>
          DistanceSum(currentPositions', targetPositions', NParticles)
              <= DistanceSum(currentPositions, targetPositions, NParticles)]_vars

\* C15: on a frame with no hands the velocity update adds no random
\* perturbation: the new velocity is (velocity + (target - current) * 0.05) * 0.9,
\* to within the two units the fixed-point products can cut off.
C15_TurbulenceGated ==
    [][NoHandsHeldTarget =>
          \A idx \in DOMAIN velocities :
              Abs(200 * velocities'[idx]
                  - 9 * (20 * velocities[idx] + targetPositions[idx] - currentPositions[idx]))
                < 2 * 200]_vars

\* a step in which a frame has read the slot (predict resets the count)
FrameStep == slotReads' = Min(slotReads + 1, MaxReads)

\* C16: in every frame, whatever the hands and the gesture state, each
\* velocity component becomes ((velocity + return force) + turbulence) * 0.9
\* for one of the turbulence draws, and the position moves by exactly that
\* stored velocity.
C16_ForceOrdering ==
    [][FrameStep =>
          \A idx \in DOMAIN velocities :
              \E n \in NoiseSet :
                  LET returned == velocities[idx]
                                  + Times(targetPositions[idx] - currentPositions[idx], 50)
                      stirred  == returned + n
                      damped   == Times(stirred, 900)
                  IN  /\ velocities'[idx] = damped
                      /\ currentPositions'[idx] = currentPositions[idx] + damped]_vars

\* a frame of an ongoing interaction has just drawn Math.random() = 0 for x:
\* the turbulence -0.005 was damped to -0.0045, stored and integrated
C16_Witness ==
    /\ wasInteracting
    /\ ts.isInteracting
    /\ turbulentFrames = 1
    /\ velocities[1] = 0 - 4
    /\ currentPositions[1] = targetPositions[1] - 4

C23_SingleLoopPerMount ==
    \A m \in MountIds : mounts[m].readyCalls <= 1 /\ mounts[m].chains <= 1

\* C24: once the cleanup of a mount has run, that mount calls none of
\* onCameraReady, onCameraError and onHandsUpdate again, whichever of
\* getUserMedia, play, the model initialisation, the timer and the scheduled
\* predict frames were pending at that moment.
C24_QuiescentAfterUnmount == lateCall = FALSE

\* the timer of mount 0 fired and unmounted it, and after that a pending
\* play() of it was rejected: the error shown is still the timeout
C24_Witness ==
    /\ ~mounts[0].active
    /\ mounts[0].timer = "fired"
    /\ mounts[0].call[1] = "play rejected"
    /\ app.cameraError = "timeout"

\* C25: over the whole session VisionService creates at most one
\* HandLandmarker, also when initialize() is entered while an earlier call
\* still awaits its creation, and the stored handle is null until a creation
\* has completed and that one instance afterwards.
C25_VisionSingleton ==
    /\ vision.created <= 1
    /\ vision.handLandmarker = vision.created

C27_InitTimeout ==
    /\ [](\A m \in MountIds :
            mounts[m].timer = "armed" <=>
                /\ mounts[m].active
                /\ mounts[m].readyCalls = 0
                /\ mounts[m].camera # "denied"
                /\ \A c \in 1..2 :
                      mounts[m].call[c] \notin {"play rejected", "initialize threw"})
    /\ [][\A m \in MountIds :
            mounts[m].timer = "armed" /\ mounts'[m].timer = "fired" =>
                app'.cameraError = "timeout"]_vars
    /\ [][app'.cameraError = "timeout" /\ app.cameraError # "timeout" =>
            \E m \in MountIds :
                /\ mounts[m].timer = "armed" /\ mounts'[m].timer = "fired"
                /\ mounts[m].readyCalls = 0]_vars

\* mount 0 ran into the timeout; after Retry mount 1 became ready with its
\* timer cleared
C27_Witness ==
    /\ mounts[0].timer = "fired"
    /\ mounts[0].readyCalls = 0
    /\ mounts[1].timer = "cleared"
    /\ mounts[1].readyCalls = 1
    /\ app = [isCameraReady |-> TRUE, cameraError |-> "none", retryKey |-> 1]

\* C28: isCameraReady and a camera error never hold together, and
\* WebcamHandler is in the tree, under the current key, exactly when there is
\* no error. (The loading overlay is shown when not ready and no error, the
\* error overlay when there is an error: they exclude each other by their
\* conditions.)
C28_AppStatus ==
    /\ ~(app.isCameraReady /\ app.cameraError # "none")
    /\ \A m \in MountIds :
          mounts[m].videoRef <=> (app.cameraError = "none" /\ m = app.retryKey)

\* an error reported after the camera was ready: the ready flag is reset and
\* the handler is out of the tree
C28_Witness ==
    /\ mounts[0].readyCalls = 1
    /\ app = [isCameraReady |-> FALSE, cameraError |-> "init", retryKey |-> 0]
    /\ ~mounts[0].videoRef

\* C29: Retry happens only on an error; it clears the error, resets
\* isCameraReady and increments the key, and a fresh mount under the new key
\* starts with its own armed timer while every other mount is inactive; a
\* step of a mount that was unmounted leaves the App state alone;
\* and an attempt that is under way ends in onCameraReady or in an error.
C29_RetryRestarts ==
    /\ [][app'.retryKey # app.retryKey =>
            /\ app.cameraError # "none"
            /\ app' = [isCameraReady |-> FALSE, cameraError |-> "none",
                       retryKey |-> app.retryKey + 1]
            /\ mounts'[app'.retryKey] = FreshMount(handDetected)
            /\ \A m \in MountIds \ {app'.retryKey} : ~mounts'[m].active]_vars
    /\ [][\A m \in MountIds :
            mounts[m].started /\ ~mounts[m].active /\ mounts'[m] # mounts[m] =>
                app' = app]_vars
    /\ (mounts[app.retryKey].active /\ ~app.isCameraReady) ~>
          (app.isCameraReady \/ app.cameraError # "none")

\* after an error and Retry the second mount is initialising while a play()
\* of the first one, pending at its unmount, has been rejected
C29_Witness ==
    /\ app = [isCameraReady |-> FALSE, cameraError |-> "none", retryKey |-> 1]
    /\ mounts[0].timer = "fired"
    /\ mounts[0].call[1] = "play rejected"
    /\ mounts[1].active
    /\ mounts[1].timer = "armed"
    /\ mounts[1].call[1] = "creating"

(***************************************************************************)
(* Properties of the scene controls and of the shape generator.            *)
(***************************************************************************)
\* C31: the interaction state starts as scale 1.0, rotationY 0, not
\* interacting; a change of shape or of colour leaves all five of its fields
\* as they are; and a step that changes it is a frame's gesture logic on the
\* hand list in the slot, with shape and colour untouched.
C31_InteractionStatePersists ==
    /\ ts = InitialTransform
    /\ [][shapeType' # shapeType \/ color' # color => ts' = ts]_vars
    /\ [][ts' # ts =>
            /\ ts' = GestureLogic(ts, handData)
            /\ shapeType' = shapeType /\ color' = color
            /\ handData' = handData]_vars

\* the shape and the colour are not the first ones, the latest change of
\* them came upon an interaction state in use, and the state is scaled,
\* rotated and interacting
C31_Witness ==
    /\ shapeType # "Heart"
    /\ color # "#ff0055"
    /\ sceneTs = "in use"
    /\ ts.scale # 1000
    /\ ts.rotationY # 0
    /\ ts.isInteracting

\* C32: a Saturn point is a body point (inside the sphere of radius 8) or a
\* ring point (in the annulus from 12 to 20), and once the first draw has
\* taken every value of an evenly spread sample, about 0.6 of the points are
\* body points and about 0.4 ring points (within 0.05).
C32_SaturnSplit ==
    /\ saturn.point # <<>> =>
          \/ /\ saturn.point[1].population = "body"
             /\ saturn.point[1].radius <= 8 * RES
          \/ /\ saturn.point[1].population = "ring"
             /\ saturn.point[1].radius >= 12 * RES
             /\ saturn.point[1].radius <= 20 * RES
    /\ saturn.drawn = UniformDraws =>
          /\ Abs(100 * saturn.body - 60 * Cardinality(UniformDraws))
                <= 5 * Cardinality(UniformDraws)
          /\ Abs(100 * saturn.ring - 40 * Cardinality(UniformDraws))
                <= 5 * Cardinality(UniformDraws)

=============================================================================
